---- MODULE Spec2Model ----
\* Order task (compneuro-ncu/order-task): the fMRI script ot_Dyscalculia.py and
\* the training script ot_Dyscalculia_adaptive_training.py.
\*
\* Times are integers in milliseconds (MsPerSec per second): every duration of
\* the scripts is a multiple of half a second.  Frame counts are integers.
\* Python lists are 0-based; the sequences here are 1-based, so the element the
\* code calls x[i] is x[i + 1] here.  Loop counters (idb, block) keep the
\* code's values.
EXTENDS Integers, Sequences, FiniteSets, TLC

\* ------------------------------------------------------------------ bounds
\* Arguments tried for generate_isi when it is checked on its own (SpecIsi).
MaxIsiTrials == 3
MaxIsiMin == 1
MaxIsiMax == 5
MaxIsiChunk == 3

\* Size of a run of the fMRI script: trials per block and block pairs
\* (12 and 4 in the script's settings).
n_trials == 2
n_block == 1

\* ------------------------------------------------------------ time settings
MsPerSec == 1000

\* ot_Dyscalculia.py, "Timing (in seconds)", here in milliseconds.
time_digit == 2000
time_info == 4000
time_range_isi == <<3000, 5000>>
time_chunk_isi == 500
refresh_rate == 60

None == "None"
key_right == "key_right"
key_left == "key_left"

VARIABLES
    script,            \* which program runs: "isi", "plan", "fmri", "training"
    pc,                \* position in the program
    g_n, g_min, g_max, g_chunk,   \* arguments of the running generate_isi call
    frames,            \* generate_isi: frames
    remaining_frames,  \* generate_isi: remaining_frames
    isi,               \* Task structure: isi, one row of frames per block
    onset_fix,         \* Task structure: onset_fix, one row per block
    onset_dig,         \* Task structure: onset_dig, one row per block
    clock,             \* fmri_clock.getTime(), ms since the first pulse
    block,             \* block counter of the running script
    condition,         \* "control" or "order"
    idb,               \* fMRI script: index of the single block
    idx,               \* number of trials of the block already finished
    onset_fix_plan,    \* 'onset_fix_plan' of the block's trials
    onset_dig_plan,    \* 'onset_dig_plan' of the block's trials
    thisTrial,         \* stimulus row of the trial: is_target, is_order
    onset_dig_log,     \* logged 'onset_dig' of the trial (= rt_onset)
    response,          \* what event.waitKeys returned
    rt, correct, keypressed,   \* the response record of the last scored trial
    n_rec,             \* records written to the block's TrialHandler
    n_rec_correct,     \* those of them with correct == 1
    wait_entry,        \* clock at the first check of the running wait loop
                       \* (for the fixation loop: the logged 'onset_fix')
    passes,            \* render passes the running wait loop has made
    last_pass,         \* duration of its last pass
    prep,              \* time taken to set and draw the three digits
    stop_cond, feedback, corr_sum,   \* training script: adaptive state
    shown,             \* training script: feedback image of the last trial
    timer,             \* training script: time left on the CountdownTimer
    onset_info,        \* fMRI script: logged 'onset_info' of the block
    pulses,            \* fMRI script: the list pulses
    pulse_csv,         \* rows of the pulse file written by save_pulses
    c_time,            \* conversion call: the time argument or result
    c_rate,            \* conversion call: the refresh_rate argument
    c_frames,          \* conversion call: the frames argument or result
    c_raised,          \* conversion call: the exception raised, or None
    c_first,           \* conversion call: the first call and its argument,
                       \* num / den seconds or num frames
    c_calls,           \* conversion calls made so far
    keybuf,            \* number of response-key presses in psychopy.event's
                       \* buffer, made while no response was waited for
    cleared            \* how many of them the trial's waitKeys threw away
                       \* (kept while the digits are held)

isiVars == <<g_n, g_min, g_max, g_chunk, frames, remaining_frames>>
planVars == <<isi, onset_fix, onset_dig>>
loopVars == <<block, condition, idb, idx>>
blockVars == <<onset_fix_plan, onset_dig_plan>>
recVars == <<rt, correct, keypressed, n_rec, n_rec_correct>>
waitVars == <<wait_entry, passes, last_pass>>
adaptVars == <<stop_cond, feedback, corr_sum>>
runVars == <<clock, loopVars, blockVars, thisTrial, onset_dig_log,
             response, recVars, waitVars, prep, adaptVars, shown>>
pulseVars == <<pulses, pulse_csv>>
convVars == <<c_time, c_rate, c_frames, c_raised, c_first, c_calls>>
keyVars == <<keybuf, cleared>>
vars == <<script, pc, isiVars, planVars, runVars, timer, onset_info,
          pulseVars, convVars, keyVars>>

\* ------------------------------------------------------------------ helpers
NoResponse == [key |-> None, t |-> 0]
NoTrial == [is_target |-> 0, is_order |-> 0]

\* The run state before either script has started its experiment.
InitRunVars ==
    /\ clock = 0
    /\ block = 0
    /\ condition = "control"
    /\ idb = -1
    /\ idx = 0
    /\ onset_fix_plan = <<>>
    /\ onset_dig_plan = <<>>
    /\ thisTrial = NoTrial
    /\ onset_dig_log = 0
    /\ response = NoResponse
    /\ rt = 0
    /\ correct = 0
    /\ keypressed = None
    /\ n_rec = 0
    /\ n_rec_correct = 0
    /\ wait_entry = 0
    /\ passes = 0
    /\ last_pass = 0
    /\ prep = 0
    /\ stop_cond = FALSE
    /\ feedback = TRUE
    /\ corr_sum = 0
    /\ shown = None
    /\ timer = 0
    /\ onset_info = 0
    /\ pulses = <<>>
    /\ pulse_csv = <<>>
    /\ keybuf = 0
    /\ cleared = 0

\* No conversion call is under way.
ConvIdle ==
    /\ c_time = [sign |-> 1, mant |-> <<>>, exp |-> 0]
    /\ c_rate = [type |-> "int", val |-> 0]
    /\ c_frames = 0
    /\ c_raised = None
    /\ c_first = [call |-> None, num |-> 0, den |-> 1]
    /\ c_calls = 0

RECURSIVE SumSeq(_)
SumSeq(s) == IF s = <<>> THEN 0 ELSE Head(s) + SumSeq(Tail(s))

\* np.cumsum
cumsum(s) == [i \in 1..Len(s) |-> SumSeq(SubSeq(s, 1, i))]

\* np.mean of a pair of settings
mean2(p) == (p[1] + p[2]) \div 2

\* ------------------------------------------------------------ Python floats
\* A Python float is an IEEE 754 double: sign * mant * 2^exp, where mant is a
\* string of Prec bits, most significant bit first and equal to 1 (the empty
\* string stands for 0.0).  The values met here are far from overflow and from
\* the subnormal range.  Every operation rounds to nearest, ties to even.
Prec == 53

FZero == [sign |-> 1, mant |-> <<>>, exp |-> 0]

\* The bits of a natural number, most significant first, and back.
RECURSIVE NatBits(_)
NatBits(n) == IF n = 0 THEN <<>> ELSE Append(NatBits(n \div 2), n % 2)

RECURSIVE BitsNat(_)
BitsNat(b) ==
    IF b = <<>> THEN 0
    ELSE 2 * BitsNat(SubSeq(b, 1, Len(b) - 1)) + b[Len(b)]

\* b + 1 on a bit string.
RECURSIVE IncBits(_)
IncBits(b) ==
    IF b = <<>> THEN <<1>>
    ELSE IF b[Len(b)] = 0 THEN [b EXCEPT ![Len(b)] = 1]
    ELSE Append(IncBits(SubSeq(b, 1, Len(b) - 1)), 0)

\* The double nearest to (b + tail) * 2^e, where b is a bit string without
\* leading zeros and tail is a fraction in [0, 1), nonzero iff sticky.
fround(sign, b, e, sticky) ==
    IF Len(b) <= Prec
    THEN [sign |-> sign,
          mant |-> b \o [i \in 1..(Prec - Len(b)) |-> 0],
          exp |-> e - (Prec - Len(b))]
    ELSE LET kept == SubSeq(b, 1, Prec)
             rest == sticky \/ \E i \in (Prec + 2)..Len(b) : b[i] = 1
             up == b[Prec + 1] = 1 /\ (rest \/ kept[Prec] = 1)
             m == IF up THEN IncBits(kept) ELSE kept
             ex == e + (Len(b) - Prec)
         IN IF Len(m) > Prec
            THEN [sign |-> sign, mant |-> SubSeq(m, 1, Prec), exp |-> ex + 1]
            ELSE [sign |-> sign, mant |-> m, exp |-> ex]

\* Long division: the quotient bits of rem / b after the bits q, until q has
\* Prec + 1 bits; s counts the bits made after the binary point.
RECURSIVE div_bits(_, _, _, _)
div_bits(q, rem, b, s) ==
    IF Len(q) = Prec + 1 THEN [q |-> q, rem |-> rem, s |-> s]
    ELSE LET bit == IF 2 * rem >= b THEN 1 ELSE 0
         IN div_bits(IF q = <<>> /\ bit = 0 THEN q ELSE Append(q, bit),
                     2 * rem - bit * b, b, s + 1)

\* a / b on Python ints (true division), b # 0.
truediv(a, b) ==
    IF a = 0 THEN FZero
    ELSE LET na == IF a < 0 THEN -a ELSE a
             nb == IF b < 0 THEN -b ELSE b
             d == div_bits(NatBits(na \div nb), na % nb, nb, 0)
         IN fround(IF (a < 0) = (b < 0) THEN 1 ELSE -1, d.q, -d.s, d.rem # 0)

\* The product of a bit string and a small natural number r, carry added:
\* schoolbook multiplication from the last bit, the carry always >= 0.
RECURSIVE mul_bits(_, _, _)
mul_bits(b, r, carry) ==
    IF b = <<>> \/ carry < 0 THEN NatBits(carry)
    ELSE LET v == b[Len(b)] * r + carry
         IN Append(mul_bits(SubSeq(b, 1, Len(b) - 1), r, v \div 2), v % 2)

\* r * x for a Python int r and a float x.
mul_int(r, x) ==
    IF r = 0 \/ x.mant = <<>> THEN FZero
    ELSE fround(IF r < 0 THEN -x.sign ELSE x.sign,
                mul_bits(x.mant, IF r < 0 THEN -r ELSE r, 0), x.exp, FALSE)

\* float.is_integer()
is_integer(x) ==
    \/ x.mant = <<>>
    \/ x.exp >= 0
    \/ /\ -x.exp < Prec
       /\ \A i \in (Prec + x.exp + 1)..Prec : x.mant[i] = 0

\* int(x) for |x| < 2^Prec: truncation towards zero.
to_int(x) ==
    IF x.mant = <<>> \/ Prec + x.exp <= 0 THEN 0
    ELSE x.sign * BitsNat(SubSeq(x.mant, 1, Prec + x.exp))

\* ---------------------------------------------------------- time conversion
\* An argument of Python type int.
PyInt(n) == [type |-> "int", val |-> n]

\* seconds2frames(time, refresh_rate): the frame count, or the error raised.
\* time is a float; refresh_rate comes with its Python type.
seconds2frames(time, rate) ==
    IF rate.type # "int"
    THEN [raised |-> "TypeError", n_frames |-> 0]
    ELSE IF time.sign < 0 \/ rate.val < 0
    THEN [raised |-> "ValueError", n_frames |-> 0]
    ELSE LET n_frames == mul_int(rate.val, time)
         IN IF ~is_integer(n_frames)
            THEN [raised |-> "ValueError", n_frames |-> 0]
            ELSE [raised |-> None, n_frames |-> to_int(n_frames)]

\* frames2seconds(frames, refresh_rate): frames / refresh_rate on ints.
frames2seconds(f, rate) ==
    IF rate = 0
    THEN [raised |-> "ZeroDivisionError", secs |-> FZero]
    ELSE [raised |-> None, secs |-> truediv(f, rate)]

\* The float of a setting of the scripts, kept here in milliseconds.
Secs(ms) == truediv(ms, MsPerSec)

\* The milliseconds of a float time; exact for the times of the scripts, which
\* are multiples of half a second.
Millis(x) == to_int(mul_int(MsPerSec, x))

\* The conversions called on their own: seconds2frames and then
\* frames2seconds on its result, or the other way round.
MaxRate == 12
MaxNum == 33

\* Refresh rates tried: small ones, the script's, zero and a negative one, as
\* an int or as a float of the same value.
Rates == [type : {"int", "float"}, val : (-1..MaxRate) \cup {refresh_rate}]

\* Times tried: num / den seconds and its negative, for whole and half
\* seconds, hundredths of a second and frame periods.
TimeDens(r) == {1, 2, 100} \cup (IF r > 0 THEN {r} ELSE {})

InitConv ==
    /\ script = "conv"
    /\ c_rate \in Rates
    /\ c_raised = None
    /\ c_calls = 0
    /\ \/ /\ pc = "c_s2f"
          /\ \E num \in (-MaxNum)..MaxNum : \E den \in TimeDens(c_rate.val) :
                /\ c_time = truediv(num, den)
                /\ c_first = [call |-> "seconds2frames",
                              num |-> num, den |-> den]
          /\ c_frames = 0
       \/ /\ pc = "c_f2s"
          /\ c_frames \in 0..MaxNum
          /\ c_time = FZero
          /\ c_first = [call |-> "frames2seconds", num |-> c_frames, den |-> 1]
    /\ g_n = 0
    /\ g_min = 0
    /\ g_max = 0
    /\ g_chunk = 0
    /\ frames = <<>>
    /\ remaining_frames = 0
    /\ isi = <<>>
    /\ onset_fix = <<>>
    /\ onset_dig = <<>>
    /\ InitRunVars

\* c_frames = seconds2frames(c_time, c_rate)
C_Seconds2Frames ==
    /\ script = "conv"
    /\ pc = "c_s2f"
    /\ LET r == seconds2frames(c_time, c_rate)
       IN /\ c_raised' = r.raised
          /\ c_frames' = r.n_frames
          /\ pc' = IF r.raised # None THEN "c_raised"
                   ELSE IF c_calls = 0 THEN "c_f2s" ELSE "c_done"
    /\ c_calls' = c_calls + 1
    /\ UNCHANGED <<script, keyVars, c_time, c_rate, c_first, pulseVars, onset_info,
                   timer, isiVars, planVars, runVars>>

\* c_time = frames2seconds(c_frames, c_rate)
C_Frames2Seconds ==
    /\ script = "conv"
    /\ pc = "c_f2s"
    /\ LET r == frames2seconds(c_frames, c_rate.val)
       IN /\ c_raised' = r.raised
          /\ c_time' = r.secs
          /\ pc' = IF r.raised # None THEN "c_raised"
                   ELSE IF c_calls = 0 THEN "c_s2f" ELSE "c_done"
    /\ c_calls' = c_calls + 1
    /\ UNCHANGED <<script, keyVars, c_frames, c_rate, c_first, pulseVars, onset_info,
                   timer, isiVars, planVars, runVars>>

NextConv == C_Seconds2Frames \/ C_Frames2Seconds

SpecConv == InitConv /\ [][NextConv]_vars

\* ------------------------------------------------------------ generate_isi
\* Mutant of isi_raises: the check of the mean left out.
isi_raises_nomean(min_frames, max_frames, chunk) ==
    \/ max_frames <= min_frames
    \/ (max_frames - min_frames) % chunk # 0

\* The three argument checks that raise ValueError.
isi_raises(min_frames, max_frames, chunk) ==
    \/ max_frames <= min_frames
    \/ (max_frames - min_frames) % chunk # 0
    \/ (max_frames - min_frames) % 2 # 0

\* Mutant of isi_remaining: the halving forgotten.
isi_remaining_nohalf(n, min_frames, max_frames) ==
    n * (max_frames - min_frames)

\* remaining_frames = int(n_trials * (max_frames - min_frames) / 2)
isi_remaining(n, min_frames, max_frames) ==
    (n * (max_frames - min_frames)) \div 2

\* Mutant of isi_accepts: the chunk left out of the comparison.
isi_accepts_nochunk(fr, ind, chunk, max_frames) == fr[ind] <= max_frames

\* if frames[ind] + chunk <= max_frames
isi_accepts(fr, ind, chunk, max_frames) == fr[ind] + chunk <= max_frames

\* Mutant of isi_pass: remaining_frames not reduced by an accepted chunk.
isi_pass_nodecrement(fr, rem, ind, chunk, max_frames) ==
    IF isi_accepts(fr, ind, chunk, max_frames)
    THEN [frames |-> [fr EXCEPT ![ind] = @ + chunk], remaining |-> rem]
    ELSE [frames |-> fr, remaining |-> rem]

\* One pass of the while loop with randint having returned ind - 1.
isi_pass(fr, rem, ind, chunk, max_frames) ==
    IF isi_accepts(fr, ind, chunk, max_frames)
    THEN [frames |-> [fr EXCEPT ![ind] = @ + chunk], remaining |-> rem - chunk]
    ELSE [frames |-> fr, remaining |-> rem]

G_Check ==
    /\ pc = "g_check"
    /\ IF isi_raises(g_min, g_max, g_chunk)
       THEN /\ pc' = "g_raised"
            /\ UNCHANGED <<frames, remaining_frames>>
       ELSE /\ frames' = [i \in 1..g_n |-> g_min]
            /\ remaining_frames' = isi_remaining(g_n, g_min, g_max)
            /\ pc' = "g_loop"
    /\ UNCHANGED <<script, keyVars, convVars, pulseVars, onset_info, timer, g_n, g_min, g_max, g_chunk, planVars, runVars>>

G_Pick ==
    /\ pc = "g_loop"
    /\ remaining_frames > 0
    /\ \E ind \in 1..g_n :
        LET r == isi_pass(frames, remaining_frames, ind, g_chunk, g_max)
        IN /\ frames' = r.frames
           /\ remaining_frames' = r.remaining
    /\ UNCHANGED <<script, keyVars, convVars, pulseVars, onset_info, timer, pc, g_n, g_min, g_max, g_chunk, planVars, runVars>>

\* generate_isi called on its own: return frames.
G_Return ==
    /\ script = "isi"
    /\ pc = "g_loop"
    /\ remaining_frames <= 0
    /\ pc' = "g_done"
    /\ UNCHANGED <<script, keyVars, convVars, pulseVars, onset_info, timer, isiVars, planVars, runVars>>

InitIsi ==
    /\ script = "isi"
    /\ pc = "g_check"
    /\ g_n \in 1..MaxIsiTrials
    /\ g_min \in 0..MaxIsiMin
    /\ g_max \in 0..MaxIsiMax
    /\ g_chunk \in 1..MaxIsiChunk
    /\ frames = <<>>
    /\ remaining_frames = 0
    /\ isi = <<>>
    /\ onset_fix = <<>>
    /\ onset_dig = <<>>
    /\ InitRunVars
    /\ ConvIdle

NextIsi == G_Check \/ G_Pick \/ G_Return

SpecIsi == InitIsi /\ [][NextIsi]_vars

\* generate_isi with a fair randint: the call goes on, and a pass that can
\* change frames (randint returning an index that accepts the chunk) is made
\* in the end, every index being drawn with probability 1 / n_trials in
\* every pass.
FairIsi ==
    /\ SpecIsi
    /\ WF_vars(G_Check)
    /\ WF_vars(G_Pick)
    /\ WF_vars(G_Return)

\* --------------------------------------------------------- generate_onsets
\* np.arange(0, time_digit * n, time_digit)
dig_cum(n) == [k \in 1..n |-> (k - 1) * time_digit]

\* Mutant of isi_cum: the cumulated ISIs not shifted by one trial.
isi_cum_unshifted(isi_dur) == cumsum(isi_dur)

\* np.concatenate(([0], np.cumsum(isi_dur)[:-1]))
isi_cum(isi_dur) ==
    IF Len(isi_dur) = 0 THEN <<0>>
    ELSE <<0>> \o SubSeq(cumsum(isi_dur), 1, Len(isi_dur) - 1)

\* Mutant of padding: the durations of the preceding blocks left out.
padding_no_blocks(ib, t_block, t_info) == t_info * (ib + 1)

\* padding = time_info * (idb + 1) + time_block * idb
padding(ib, t_block, t_info) == t_info * (ib + 1) + t_block * ib

\* The rows appended for block idb = ib (0-based) by one pass of the for loop.
block_onsets(isi_dur, ib, t_block, t_info, n) ==
    LET ic == isi_cum(isi_dur)
        dc == dig_cum(n)
        pad == padding(ib, t_block, t_info)
    IN [fix |-> [k \in 1..n |-> ic[k] + dc[k] + pad],
        dig |-> [k \in 1..n |-> ic[k] + dc[k] + isi_dur[k] + pad]]

generate_onsets(isi_secs, t_block, t_info, n) ==
    [fix |-> [b \in 1..Len(isi_secs) |->
                 block_onsets(isi_secs[b], b - 1, t_block, t_info, n).fix],
     dig |-> [b \in 1..Len(isi_secs) |->
                 block_onsets(isi_secs[b], b - 1, t_block, t_info, n).dig]]

\* ------------------------------------------- Task structure (fMRI script)
n_chunk_isi == seconds2frames(Secs(time_chunk_isi), PyInt(refresh_rate)).n_frames
n_refresh_info == seconds2frames(Secs(time_info), PyInt(refresh_rate)).n_frames
n_range_isi ==
    <<seconds2frames(Secs(time_range_isi[1]), PyInt(refresh_rate)).n_frames,
      seconds2frames(Secs(time_range_isi[2]), PyInt(refresh_rate)).n_frames>>

\* The ISI values generate_isi can return for the script's settings, and
\* frames2seconds of each of them, in milliseconds.
isi_frames ==
    {n_range_isi[1] + j * n_chunk_isi :
        j \in 0..((n_range_isi[2] - n_range_isi[1]) \div n_chunk_isi)}
isi_millis ==
    [f \in isi_frames |-> Millis(frames2seconds(f, refresh_rate).secs)]

\* time_block = n_trials * (np.mean(time_range_isi) + time_digit)
time_block == n_trials * (mean2(time_range_isi) + time_digit)

isi_seconds == [b \in 1..Len(isi) |->
                   [k \in 1..Len(isi[b]) |-> isi_millis[isi[b][k]]]]

InitPlan ==
    /\ script = "plan"
    /\ pc = "g_check"
    /\ g_n = n_trials
    /\ g_min = n_range_isi[1]
    /\ g_max = n_range_isi[2]
    /\ g_chunk = n_chunk_isi
    /\ frames = <<>>
    /\ remaining_frames = 0
    /\ isi = <<>>
    /\ onset_fix = <<>>
    /\ onset_dig = <<>>
    /\ InitRunVars
    /\ ConvIdle

\* One element of the list comprehension isi = [generate_isi(...) for _ in
\* range(2 * n_block)]: the call returns and the next one starts.
P_IsiReturn ==
    /\ script = "plan"
    /\ pc = "g_loop"
    /\ remaining_frames <= 0
    /\ isi' = Append(isi, frames)
    /\ pc' = IF Len(isi) + 1 < 2 * n_block THEN "g_check" ELSE "p_onsets"
    /\ UNCHANGED <<script, keyVars, convVars, pulseVars, onset_info, timer, isiVars, onset_fix, onset_dig, runVars>>

P_Onsets ==
    /\ script = "plan"
    /\ pc = "p_onsets"
    /\ LET o == generate_onsets(isi_seconds, time_block, time_info, n_trials)
       IN /\ onset_fix' = o.fix
          /\ onset_dig' = o.dig
    /\ pc' = "p_done"
    /\ UNCHANGED <<script, keyVars, convVars, pulseVars, onset_info, timer, isiVars, isi, runVars>>

NextPlan == G_Check \/ G_Pick \/ P_IsiReturn \/ P_Onsets

SpecPlan == InitPlan /\ [][NextPlan]_vars

\* ------------------------------------------------ modelled delays and input
\* Time passes in window flips, in the preparation of the digit stimuli, in
\* event.waitKeys and in logging; every modelled delay is a multiple of Tick.
Tick == time_chunk_isi
MaxPassTicks == 5

\* Duration of one pass (draw and flip) of a wait loop, and of one flip.
PassDelays == {Tick, MaxPassTicks * Tick}
\* Time taken by trial-list creation, logging and printing.
IODelays == {0, MaxPassTicks * Tick}
\* Time taken by setText and draw of the three digits.
PrepDelays == {0, Tick}
\* Time after which a response key is pressed, within the response window.
RespWaits == {Tick, time_digit - Tick}

\* Rows of the stimulus table: is_target and is_order.
Stim == [is_target : {0, 1}, is_order : {-1, 0, 1}]

Abs(x) == IF x < 0 THEN -x ELSE x

\* Key presses made before event.waitKeys is called that it may hold.
MaxKeyBuf == 1

\* Mutant of wait_buffer: waitKeys called with clearEvents=False.
wait_buffer_kept(buf) == buf

\* The key presses waitKeys finds in the buffer when it starts to wait: with
\* clearEvents=True the buffer is emptied first.
wait_buffer(buf) == 0

\* What waitKeys returns for a press it finds in the buffer: the press was
\* made at or before the time last, and its time stamp says so.
StaleKeys(last) ==
    [key : {key_left, key_right}, t : {last - Tick, last}]

\* The key presses that waitKeys throws away when it starts to wait.
wait_cleared(buf) == buf - wait_buffer(buf)

\* Mutant of wait_more: the loop goes on while the clock is at the deadline.
wait_more_le(clk, deadline) == clk <= deadline

\* Condition of the wait loops: while fmri_clock.getTime() < deadline.
wait_more(clk, deadline) == clk < deadline

\* Mutant of hold_deadline: the digit duration left out.
hold_deadline_noduration(plan, i) == plan[i + 1]

\* Deadline of the loop that holds the digits on screen.
hold_deadline(plan, i) == plan[i + 1] + time_digit

\* Mutant of analyze_response: abs() of is_order forgotten.
analyze_response_noabs(resp, cond, trial, rt_onset, prev) ==
    IF resp.key = None
    THEN [rt |-> 0, correct |-> -1, keypressed |-> None]
    ELSE IF resp.key = key_right
    THEN [rt |-> resp.t - rt_onset,
          correct |-> IF cond = "control"
                      THEN (IF trial.is_target = 1 THEN 1 ELSE 0)
                      ELSE (IF trial.is_order = 1 THEN 1 ELSE 0),
          keypressed |-> key_right]
    ELSE IF resp.key = key_left
    THEN [rt |-> resp.t - rt_onset,
          correct |-> IF cond = "control"
                      THEN (IF trial.is_target = 0 THEN 1 ELSE 0)
                      ELSE (IF trial.is_order = 0 THEN 1 ELSE 0),
          keypressed |-> key_left]
    ELSE prev

\* "analyze response" of the fMRI script; prev holds the values the three
\* variables keep when no branch assigns them.
analyze_response(resp, cond, trial, rt_onset, prev) ==
    IF resp.key = None
    THEN [rt |-> 0, correct |-> -1, keypressed |-> None]
    ELSE IF resp.key = key_right
    THEN [rt |-> resp.t - rt_onset,
          correct |-> IF cond = "control"
                      THEN (IF trial.is_target = 1 THEN 1 ELSE 0)
                      ELSE (IF Abs(trial.is_order) = 1 THEN 1 ELSE 0),
          keypressed |-> key_right]
    ELSE IF resp.key = key_left
    THEN [rt |-> resp.t - rt_onset,
          correct |-> IF cond = "control"
                      THEN (IF trial.is_target = 0 THEN 1 ELSE 0)
                      ELSE (IF trial.is_order = 0 THEN 1 ELSE 0),
          keypressed |-> key_left]
    ELSE prev

\* ------------------------------------------------------------ scanner pulses
\* Pulses logged by the handler in a run, at most; the pulse that starts the
\* run is logged besides them.
MaxPulses == 2

\* Sizes of the pulse logs tried for save_pulses on its own (SpecSave).
MaxLogLen == 3
MaxStamp == 3

\* glob_clock is a core.MonotonicClock of its own, never reset: of a reading
\* it is kept that it is not less than the reading before it.  The scanner
\* sends its pulses a repetition time apart: a reading is the reading at the
\* pulse before it, or 0 for the first one, plus one of GlobSteps.
GlobSteps == {Tick}

last_reading(log) == IF log = <<>> THEN 0 ELSE log[Len(log)]

\* Mutant of getpulse: the timestamp put at the front of the list.
getpulse_front(log, now) == <<now>> \o log

\* getpulse: pulses.append(glob_clock.getTime())
getpulse(log, now) == Append(log, now)

\* Mutant of save_pulses: the difference taken the other way round.
save_pulses_reversed(log) ==
    IF log = <<>> THEN <<>>
    ELSE LET puldur == <<0>> \o [i \in 1..(Len(log) - 1) |-> log[i] - log[i + 1]]
         IN [i \in 1..Len(log) |->
                [index |-> i, onset |-> log[i], spacing |-> puldur[i]]]

\* save_pulses: the rows of the csv file, or no file for an empty list.
\* puldur = [0] + [p1 - p2 for p1, p2 in zip(pulses[1:], pulses[:-1])]
save_pulses(log) ==
    IF log = <<>> THEN <<>>
    ELSE LET puldur == <<0>> \o [i \in 1..(Len(log) - 1) |->
                                    Tail(log)[i] - SubSeq(log, 1, Len(log) - 1)[i]]
         IN [i \in 1..Len(log) |->
                [index |-> i, onset |-> log[i], spacing |-> puldur[i]]]

\* save_pulses called on its own.
InitSave ==
    /\ script = "save"
    /\ pc = "s_save"
    /\ \E n \in 0..MaxLogLen : pulses \in [1..n -> 0..MaxStamp]
    /\ pulse_csv = <<>>
    /\ g_n = 0
    /\ g_min = 0
    /\ g_max = 0
    /\ g_chunk = 0
    /\ frames = <<>>
    /\ remaining_frames = 0
    /\ isi = <<>>
    /\ onset_fix = <<>>
    /\ onset_dig = <<>>
    /\ clock = 0
    /\ block = 0
    /\ condition = "control"
    /\ idb = -1
    /\ idx = 0
    /\ onset_fix_plan = <<>>
    /\ onset_dig_plan = <<>>
    /\ thisTrial = NoTrial
    /\ onset_dig_log = 0
    /\ response = NoResponse
    /\ rt = 0
    /\ correct = 0
    /\ keypressed = None
    /\ n_rec = 0
    /\ n_rec_correct = 0
    /\ wait_entry = 0
    /\ passes = 0
    /\ last_pass = 0
    /\ prep = 0
    /\ stop_cond = FALSE
    /\ feedback = TRUE
    /\ corr_sum = 0
    /\ shown = None
    /\ timer = 0
    /\ onset_info = 0
    /\ keybuf = 0
    /\ cleared = 0
    /\ ConvIdle

S_Save ==
    /\ script = "save"
    /\ pc = "s_save"
    /\ pulse_csv' = save_pulses(pulses)
    /\ pc' = "s_done"
    /\ UNCHANGED <<script, keyVars, convVars, pulses, onset_info, timer, isiVars,
                   planVars, runVars>>

SpecSave == InitSave /\ [][S_Save]_vars

\* ------------------------------------------------ Experiment (fMRI script)
\* The isi and onset tables are made before the experiment starts, one row per
\* block, the rows drawn independently of each other (SpecPlan).  A row is
\* read only when its block starts ("Set onsets"), so here the row of block
\* idb is drawn by generate_isi at that point and rows of other blocks are
\* not kept in the state.
InitFmri ==
    /\ script = "fmri"
    /\ pc = "f_ready"
    /\ g_n = n_trials
    /\ g_min = n_range_isi[1]
    /\ g_max = n_range_isi[2]
    /\ g_chunk = n_chunk_isi
    /\ frames = <<>>
    /\ remaining_frames = 0
    /\ isi = <<>>
    /\ onset_fix = <<>>
    /\ onset_dig = <<>>
    /\ InitRunVars
    /\ ConvIdle

\* event.waitKeys(keyList=[key_left, key_right]): the participant is ready.
F_Ready ==
    /\ script = "fmri"
    /\ pc = "f_ready"
    /\ pc' = "f_pulse"
    /\ UNCHANGED <<script, keyVars, convVars, pulseVars, onset_info, timer, isiVars, planVars, runVars>>

\* event.waitKeys(keyList=[key_pulse]); fmri_clock.reset().  key_pulse is
\* a global key as well: the press that ends the wait calls getpulse, so the
\* first scanner pulse is the next entry of pulses.
F_FirstPulse ==
    /\ script = "fmri"
    /\ pc = "f_pulse"
    /\ \E d \in GlobSteps : pulses' = getpulse(pulses, last_reading(pulses) + d)
    /\ clock' = 0
    /\ pc' = "f_block"
    /\ UNCHANGED <<script, keyVars, convVars, pulse_csv, onset_info, timer, isiVars, planVars, loopVars, blockVars, thisTrial,
                   onset_dig_log, response, recVars, waitVars,
                   prep, adaptVars, shown>>

\* Begin single block: idb += 1, 'onset_info' is read from the clock and the
\* info screen is drawn.
F_BlockBegin ==
    /\ script = "fmri"
    /\ pc = "f_block"
    /\ idb' = idb + 1
    /\ idx' = 0
    /\ n_rec' = 0
    /\ n_rec_correct' = 0
    /\ onset_info' = clock
    /\ pc' = "g_check"
    /\ UNCHANGED <<script, keyVars, convVars, pulseVars, timer, isiVars, planVars, clock,
                   block, condition, blockVars, thisTrial, onset_dig_log,
                   response, rt, correct, keypressed, waitVars, prep,
                   adaptVars, shown>>

\* Trial loop creation and "Set onsets": the block's trials get the planned
\* onsets of row idb; the first check of the info-screen loop follows.
F_SetOnsets ==
    /\ script = "fmri"
    /\ pc = "g_loop"
    /\ remaining_frames <= 0
    /\ LET secs == [i \in 1..n_trials |-> isi_millis[frames[i]]]
           o == block_onsets(secs, idb, time_block, time_info, n_trials)
       IN /\ onset_fix_plan' = o.fix
          /\ onset_dig_plan' = o.dig
    /\ \E d \in IODelays :
          /\ clock' = clock + d
          /\ wait_entry' = clock + d
    /\ passes' = 0
    /\ last_pass' = 0
    /\ pc' = "f_info_wait"
    /\ frames' = <<>>
    /\ remaining_frames' = 0
    /\ UNCHANGED <<script, keyVars, convVars, pulseVars, onset_info, timer, g_n, g_min, g_max, g_chunk, planVars, loopVars, thisTrial, onset_dig_log, response, recVars, prep, adaptVars, shown>>

\* while fmri_clock.getTime() < onset_fix[idb][0]: instr.draw(); mywin.flip()
F_InfoPass ==
    /\ script = "fmri"
    /\ pc = "f_info_wait"
    /\ wait_more(clock, onset_fix_plan[1])
    /\ \E d \in PassDelays :
          /\ clock' = clock + d
          /\ last_pass' = d
    /\ passes' = passes + 1
    /\ UNCHANGED <<script, keyVars, convVars, pulseVars, onset_info, timer, pc, isiVars, planVars, loopVars, blockVars, thisTrial,
                   onset_dig_log, response, recVars, wait_entry,
                   prep, adaptVars, shown>>

\* Mutant of F_InfoExit: the info screen left at any time.
F_InfoExit_anytime ==
    /\ script = "fmri"
    /\ pc = "f_info_wait"
    /\ pc' = "f_trial"
    /\ UNCHANGED <<script, keyVars, convVars, pulseVars, onset_info, timer, isiVars,
                   planVars, runVars>>

F_InfoExit ==
    /\ script = "fmri"
    /\ pc = "f_info_wait"
    /\ ~wait_more(clock, onset_fix_plan[1])
    /\ pc' = "f_trial"
    /\ UNCHANGED <<script, keyVars, convVars, pulseVars, onset_info, timer, isiVars, planVars, runVars>>

\* for thisTrial in trials: the next trial starts, 'onset_fix' is logged and
\* the fixation loop makes its first check.  response, rt, correct and
\* keypressed are assigned again before they are read; they are cleared here,
\* and so is 'onset_info', whose log entry was closed when it was written.
F_TrialBegin ==
    /\ script = "fmri"
    /\ pc = "f_trial"
    /\ idx < n_trials
    /\ thisTrial' = NoTrial
    /\ wait_entry' = clock
    /\ passes' = 0
    /\ last_pass' = 0
    /\ response' = NoResponse
    /\ rt' = 0
    /\ correct' = 0
    /\ keypressed' = None
    /\ onset_info' = 0
    /\ pc' = "f_fix"
    /\ UNCHANGED <<script, keyVars, convVars, pulseVars, timer, isiVars, planVars, clock,
                   loopVars, blockVars, onset_dig_log, n_rec, n_rec_correct,
                   prep, adaptVars, shown>>

\* while fmri_clock.getTime() < thisTrial['onset_dig_plan']: fix.draw(); flip
F_FixPass ==
    /\ script = "fmri"
    /\ pc = "f_fix"
    /\ wait_more(clock, onset_dig_plan[idx + 1])
    /\ \E d \in PassDelays :
          /\ clock' = clock + d
          /\ last_pass' = d
    /\ passes' = passes + 1
    /\ UNCHANGED <<script, keyVars, convVars, pulseVars, onset_info, timer, pc, isiVars, planVars, loopVars, blockVars, thisTrial,
                   onset_dig_log, response, recVars, wait_entry,
                   prep, adaptVars, shown>>

\* Mutant of F_FixExit: the response window opens without the digits step.
F_FixExit_nodigits ==
    /\ script = "fmri"
    /\ pc = "f_fix"
    /\ ~wait_more(clock, onset_dig_plan[idx + 1])
    /\ pc' = "f_await"
    /\ UNCHANGED <<script, keyVars, convVars, pulseVars, onset_info, timer, isiVars,
                   planVars, runVars>>

F_FixExit ==
    /\ script = "fmri"
    /\ pc = "f_fix"
    /\ ~wait_more(clock, onset_dig_plan[idx + 1])
    /\ pc' = "f_digits"
    /\ UNCHANGED <<script, keyVars, convVars, pulseVars, onset_info, timer, isiVars, planVars, runVars>>

\* digits: the three texts are set and drawn, 'onset_dig' and rt_onset are
\* read from the clock, the window flips.
F_Digits ==
    /\ script = "fmri"
    /\ pc = "f_digits"
    /\ \E p \in PrepDelays : \E d \in PassDelays :
          /\ prep' = p
          /\ onset_dig_log' = clock + p
          /\ clock' = clock + p + d
    /\ pc' = "f_await"
    /\ UNCHANGED <<script, keyVars, convVars, pulseVars, onset_info, timer, isiVars, planVars, loopVars, blockVars, thisTrial,
                   response, recVars, waitVars, adaptVars, shown>>

\* response = event.waitKeys(maxWait=time_digit, keyList=[key_left,
\* key_right], timeStamped=fmri_clock, clearEvents=True); the hold loop makes
\* its first check.  A key press left in the buffer is returned at once; else
\* the call returns the first key pressed from now on, or None after maxWait.
F_Await ==
    /\ script = "fmri"
    /\ pc = "f_await"
    /\ IF wait_buffer(keybuf) > 0
       THEN /\ response' \in StaleKeys(onset_dig_log - prep)
            /\ clock' = clock
            /\ wait_entry' = clock
       ELSE \/ \E key \in {key_left, key_right} : \E w \in RespWaits :
                  /\ response' = [key |-> key, t |-> clock + w]
                  /\ clock' = clock + w
                  /\ wait_entry' = clock + w
            \/ /\ response' = NoResponse
               /\ clock' = clock + time_digit
               /\ wait_entry' = clock + time_digit
    /\ keybuf' = 0
    /\ cleared' = wait_cleared(keybuf)
    /\ passes' = 0
    /\ last_pass' = 0
    /\ prep' = 0
    /\ pc' = "f_hold"
    /\ UNCHANGED <<script, convVars, pulseVars, onset_info, timer, isiVars, planVars, loopVars, blockVars, thisTrial,
                   onset_dig_log, recVars, adaptVars, shown>>

\* while fmri_clock.getTime() < thisTrial['onset_dig_plan'] + time_digit
F_HoldPass ==
    /\ script = "fmri"
    /\ pc = "f_hold"
    /\ wait_more(clock, hold_deadline(onset_dig_plan, idx))
    /\ \E d \in PassDelays :
          /\ clock' = clock + d
          /\ last_pass' = d
    /\ passes' = passes + 1
    /\ UNCHANGED <<script, keyVars, convVars, pulseVars, onset_info, timer, pc, isiVars, planVars, loopVars, blockVars, thisTrial,
                   onset_dig_log, response, recVars, wait_entry,
                   prep, adaptVars, shown>>

F_HoldExit ==
    /\ script = "fmri"
    /\ pc = "f_hold"
    /\ ~wait_more(clock, hold_deadline(onset_dig_plan, idx))
    /\ pc' = "f_score"
    /\ cleared' = 0
    /\ UNCHANGED <<script, keybuf, convVars, pulseVars, onset_info, timer, isiVars, planVars, runVars>>

\* analyze response, save responses in TrialHandler, exp.nextEntry(), prints.
\* is_target and is_order of the trial's row are read here for the first
\* time: the row's content is drawn here.
\* nextEntry closes the log entry of the trial: the logged onsets and the
\* bookkeeping of the wait loops are cleared.
F_Score ==
    /\ script = "fmri"
    /\ pc = "f_score"
    /\ thisTrial' \in Stim
    /\ LET r == analyze_response(response, condition, thisTrial', onset_dig_log,
                                 [rt |-> rt, correct |-> correct,
                                  keypressed |-> keypressed])
       IN /\ rt' = r.rt
          /\ correct' = r.correct
          /\ keypressed' = r.keypressed
          /\ n_rec_correct' = n_rec_correct + (IF r.correct = 1 THEN 1 ELSE 0)
    /\ n_rec' = n_rec + 1
    /\ \E d \in IODelays : clock' = clock + d
    /\ idx' = idx + 1
    /\ onset_dig_log' = 0
    /\ wait_entry' = 0
    /\ passes' = 0
    /\ last_pass' = 0
    /\ pc' = "f_trial"
    /\ UNCHANGED <<script, keyVars, convVars, pulseVars, onset_info, timer, isiVars, planVars, block, condition, idb, blockVars,
                   response, prep, adaptVars, shown>>

\* The trials of the block are used up: next condition, next block pair, or
\* the end of the task.  The block's TrialHandler and the locals of the last
\* trial are not read again; they are cleared.
F_BlockEnd ==
    /\ script = "fmri"
    /\ pc = "f_trial"
    /\ idx = n_trials
    /\ IF condition = "control"
       THEN /\ condition' = "order"
            /\ block' = block
            /\ pc' = "f_block"
       ELSE /\ condition' = "control"
            /\ block' = block + 1
            /\ pc' = IF block + 1 < n_block THEN "f_block" ELSE "f_thanks"
    /\ thisTrial' = NoTrial
    /\ response' = NoResponse
    /\ rt' = 0
    /\ correct' = 0
    /\ keypressed' = None
    /\ onset_fix_plan' = <<>>
    /\ onset_dig_plan' = <<>>
    /\ UNCHANGED <<script, keyVars, convVars, pulseVars, onset_info, timer, isiVars, planVars, clock, idb, idx,
                   onset_dig_log, n_rec, n_rec_correct, waitVars,
                   prep, adaptVars, shown>>

\* 'Thank you' screen, for frame in range(n_refresh_info): one frame is
\* drawn and flipped.  passes is the number of frames shown so far.
F_Thanks ==
    /\ script = "fmri"
    /\ pc = "f_thanks"
    /\ passes < n_refresh_info
    /\ \E d \in PassDelays : clock' = clock + d
    /\ passes' = passes + 1
    /\ UNCHANGED <<script, keyVars, convVars, pulseVars, onset_info, timer, pc, isiVars, planVars, loopVars, blockVars, thisTrial,
                   onset_dig_log, response, recVars, wait_entry, last_pass,
                   prep, adaptVars, shown>>

\* The frame loop of the 'Thank you' screen is over after n_refresh_info
\* frames, whatever time they took.
F_ThanksExit ==
    /\ script = "fmri"
    /\ pc = "f_thanks"
    /\ passes = n_refresh_info
    /\ passes' = 0
    /\ pc' = "f_save"
    /\ UNCHANGED <<script, keyVars, convVars, pulseVars, onset_info, timer, isiVars, planVars, clock, loopVars, blockVars, thisTrial,
                   onset_dig_log, response, recVars, wait_entry, last_pass,
                   prep, adaptVars, shown>>

\* exp.saveAsWideText(...); save_pulses(pulses, filename)
F_Save ==
    /\ script = "fmri"
    /\ pc = "f_save"
    /\ pulse_csv' = save_pulses(pulses)
    /\ pc' = "f_done"
    /\ UNCHANGED <<script, keyVars, convVars, pulses, onset_info, timer, isiVars,
                   planVars, runVars>>

NextFmri ==
    \/ F_Ready \/ F_FirstPulse \/ F_BlockBegin \/ F_SetOnsets
    \/ F_InfoPass \/ F_InfoExit \/ F_TrialBegin \/ F_FixPass \/ F_FixExit
    \/ F_Digits \/ F_Await \/ F_HoldPass \/ F_HoldExit \/ F_Score
    \/ F_BlockEnd \/ F_Thanks \/ F_ThanksExit \/ F_Save

\* The fMRI run in which the scanner sends one pulse, the one that starts it.
SpecFmri == InitFmri /\ [][G_Check \/ G_Pick \/ NextFmri]_vars

\* The handler of key_pulse, called when key_pulse arrives while the script
\* handles events, from the ready check to the last frame of the 'Thank you'
\* screen: getpulse().  At the wait for the first pulse the arrival is
\* F_FirstPulse.
F_GetPulse ==
    /\ script = "fmri"
    /\ pc \notin {"f_pulse", "f_save", "f_done"}
    /\ Len(pulses) < MaxPulses
    /\ \E d \in GlobSteps : pulses' = getpulse(pulses, last_reading(pulses) + d)
    /\ UNCHANGED <<script, keyVars, pc, convVars, pulse_csv, onset_info, timer, isiVars,
                   planVars, runVars>>

\* The fMRI run in which the scanner sends further pulses, at any time
\* events are handled.
SpecPulse == InitFmri /\ [][G_Check \/ G_Pick \/ NextFmri \/ F_GetPulse]_vars

\* -------------------------------------------------------- training script
\* ot_Dyscalculia_adaptive_training.py.  Its timers count down from the moment
\* they are reset; the clock variable (fmri_clock) is not used by it.
INF == -1
max_n_blocks == 8
train_trials == 12
stop_min_correct == 8
nofb_min_correct == 6

\* "Timing (in seconds)" of the training script, in milliseconds.
time_fix == 4000
time_info_t == 4000
time_feedback == 2000

\* time_digit, one entry per block pair.
time_digit_t == <<INF, INF, 3000, 2000, 2000, 2000, 2000, 2000>>

\* Mutant of wait_till_end: the digits are held in every block pair.
wait_till_end_always == <<TRUE, TRUE, TRUE, TRUE, TRUE, TRUE, TRUE, TRUE>>

\* wait_till_end, one entry per block pair.
wait_till_end == <<FALSE, FALSE, TRUE, TRUE, TRUE, TRUE, TRUE, TRUE>>

\* len(blorder_o) = len(blorder_c): sample(..., 4) * 2
n_blorder == 4 * 2

\* timer.getTime() > 0 on a CountdownTimer showing t.
timer_running(t) == t = INF \/ t > 0

\* What a CountdownTimer showing t shows after the time d.
timer_after(t, d) == IF t = INF THEN INF ELSE t - d

\* Times (on rtimer) at which a response key may be pressed when the response
\* window lasts max_wait.
RespWaitsT(max_wait) ==
    {w \in {Tick, 3 * Tick, 5 * Tick, 7 * Tick} : max_wait = INF \/ w < max_wait}

\* Mutant of analyze_response_t: a timeout scored as an incorrect answer.
analyze_response_t_timeout0(resp, cond, trial, prev) ==
    IF resp.key = None
    THEN [rt |-> 0, correct |-> 0, keypressed |-> None]
    ELSE IF resp.key = key_right
    THEN [rt |-> resp.t,
          correct |-> IF cond = "control"
                      THEN (IF trial.is_target = 1 THEN 1 ELSE 0)
                      ELSE (IF Abs(trial.is_order) = 1 THEN 1 ELSE 0),
          keypressed |-> key_right]
    ELSE IF resp.key = key_left
    THEN [rt |-> resp.t,
          correct |-> IF cond = "control"
                      THEN (IF trial.is_target = 0 THEN 1 ELSE 0)
                      ELSE (IF trial.is_order = 0 THEN 1 ELSE 0),
          keypressed |-> key_left]
    ELSE prev

\* "analyze response" of the training script: rt is the rtimer stamp.
analyze_response_t(resp, cond, trial, prev) ==
    IF resp.key = None
    THEN [rt |-> 0, correct |-> -1, keypressed |-> None]
    ELSE IF resp.key = key_right
    THEN [rt |-> resp.t,
          correct |-> IF cond = "control"
                      THEN (IF trial.is_target = 1 THEN 1 ELSE 0)
                      ELSE (IF Abs(trial.is_order) = 1 THEN 1 ELSE 0),
          keypressed |-> key_right]
    ELSE IF resp.key = key_left
    THEN [rt |-> resp.t,
          correct |-> IF cond = "control"
                      THEN (IF trial.is_target = 0 THEN 1 ELSE 0)
                      ELSE (IF trial.is_order = 0 THEN 1 ELSE 0),
          keypressed |-> key_left]
    ELSE prev

\* Mutant of adaptation: feedback turned off from the first block pair on.
adaptation_anyblock(cs, blk, fb, stop) ==
    [stop_cond |-> IF cs >= stop_min_correct /\ fb = FALSE THEN TRUE ELSE stop,
     feedback |-> IF cs >= nofb_min_correct THEN FALSE ELSE TRUE]

\* Mutant of adaptation: the thresholds compared strictly.
adaptation_strict(cs, blk, fb, stop) ==
    [stop_cond |-> IF cs > stop_min_correct /\ fb = FALSE THEN TRUE ELSE stop,
     feedback |-> IF cs > nofb_min_correct /\ blk >= 2 THEN FALSE ELSE TRUE]

\* "Adaptation", run at the end of an order block.
adaptation(cs, blk, fb, stop) ==
    [stop_cond |-> IF cs >= stop_min_correct /\ fb = FALSE THEN TRUE ELSE stop,
     feedback |-> IF cs >= nofb_min_correct /\ blk >= 2 THEN FALSE ELSE TRUE]

InitTraining ==
    /\ script = "training"
    /\ pc = "t_ready"
    /\ g_n = 0
    /\ g_min = 0
    /\ g_max = 0
    /\ g_chunk = 0
    /\ frames = <<>>
    /\ remaining_frames = 0
    /\ isi = <<>>
    /\ onset_fix = <<>>
    /\ onset_dig = <<>>
    /\ InitRunVars
    /\ ConvIdle

\* event.waitKeys(): the participant is ready.
T_Ready ==
    /\ script = "training"
    /\ pc = "t_ready"
    /\ pc' = "t_while"
    /\ UNCHANGED <<script, keyVars, convVars, pulseVars, onset_info, timer, isiVars, planVars, runVars>>

\* while (stop_cond == False) and (block <= max_n_blocks-1): block += 1
T_While ==
    /\ script = "training"
    /\ pc = "t_while"
    /\ IF stop_cond = FALSE /\ block <= max_n_blocks - 1
       THEN /\ block' = block + 1
            /\ pc' = "t_info"
       ELSE /\ block' = block
            /\ pc' = "t_thanks"
    /\ condition' = "control"
    /\ UNCHANGED <<script, keyVars, convVars, pulseVars, onset_info, timer, isiVars, planVars, clock, idb, idx, blockVars, thisTrial,
                   onset_dig_log, response, recVars, waitVars, prep, adaptVars,
                   shown>>

\* Info screen and trial loop creation: timer.reset(time_info), the screen
\* flips, and blorder_c[block] or blorder_o[block] raises IndexError when
\* block is past the end of the list.  Otherwise the trial list is made while
\* the timer runs.
T_Info ==
    /\ script = "training"
    /\ pc = "t_info"
    /\ IF block >= n_blorder
       THEN /\ pc' = "t_crashed"
            /\ timer' = 0
            /\ UNCHANGED <<idx, n_rec, n_rec_correct>>
       ELSE /\ pc' = "t_info_wait"
            /\ \E d \in IODelays : timer' = time_info_t - d
            /\ idx' = 0
            /\ n_rec' = 0
            /\ n_rec_correct' = 0
    /\ UNCHANGED <<script, keyVars, convVars, pulseVars, onset_info, isiVars, planVars,
                   clock, block, condition, idb, blockVars, thisTrial,
                   onset_dig_log, response, rt, correct, keypressed, waitVars,
                   prep, adaptVars, shown>>

\* One pass of a loop "while timer.getTime() > 0: draw; flip": the info
\* screen, the fixation cross, the feedback face or the 'Thank you' text.
T_TimerPass ==
    /\ script = "training"
    /\ pc \in {"t_info_wait", "t_fix", "t_fb_wait", "t_thanks_wait"}
    /\ timer_running(timer)
    /\ \E d \in PassDelays : timer' = timer_after(timer, d)
    /\ UNCHANGED <<script, keyVars, pc, convVars, pulseVars, onset_info, isiVars,
                   planVars, runVars>>

\* The info screen time is over; corr_sum is reset before an order block.
T_InfoExit ==
    /\ script = "training"
    /\ pc = "t_info_wait"
    /\ ~timer_running(timer)
    /\ corr_sum' = IF condition = "order" THEN 0 ELSE corr_sum
    /\ timer' = 0
    /\ pc' = "t_trial"
    /\ UNCHANGED <<script, keyVars, convVars, pulseVars, onset_info, isiVars, planVars,
                   clock, loopVars, blockVars, thisTrial, onset_dig_log,
                   response, recVars, waitVars, prep, stop_cond, feedback,
                   shown>>

\* for thisTrial in trials: the next trial starts with timer.reset(time_fix).
T_TrialBegin ==
    /\ script = "training"
    /\ pc = "t_trial"
    /\ idx < train_trials
    /\ thisTrial' = NoTrial
    /\ response' = NoResponse
    /\ rt' = 0
    /\ correct' = 0
    /\ keypressed' = None
    /\ shown' = None
    /\ timer' = time_fix
    /\ pc' = "t_fix"
    /\ UNCHANGED <<script, keyVars, convVars, pulseVars, onset_info, isiVars, planVars,
                   clock, loopVars, blockVars, onset_dig_log, n_rec,
                   n_rec_correct, waitVars, prep, adaptVars>>

\* The fixation time is over.
T_FixExit ==
    /\ script = "training"
    /\ pc = "t_fix"
    /\ ~timer_running(timer)
    /\ timer' = 0
    /\ pc' = "t_digits"
    /\ UNCHANGED <<script, keyVars, convVars, pulseVars, onset_info, isiVars, planVars,
                   runVars>>

\* digits: the three texts are set and drawn, the window flips,
\* timer.reset(t=time_digit[block-1]) and rtimer.reset().
T_Digits ==
    /\ script = "training"
    /\ pc = "t_digits"
    /\ timer' = time_digit_t[block]
    /\ pc' = "t_await"
    /\ UNCHANGED <<script, keyVars, convVars, pulseVars, onset_info, isiVars, planVars,
                   runVars>>

\* response = event.waitKeys(maxWait=time_digit[block-1], keyList=[key_left,
\* key_right], timeStamped=rtimer, clearEvents=True): a key press left in
\* the buffer is returned at once, else a key is pressed.
T_AwaitKey ==
    /\ script = "training"
    /\ pc = "t_await"
    /\ IF wait_buffer(keybuf) > 0
       THEN /\ response' \in StaleKeys(0)
            /\ timer' = timer
       ELSE \E key \in {key_left, key_right} :
            \E w \in RespWaitsT(time_digit_t[block]) :
               /\ response' = [key |-> key, t |-> w]
               /\ timer' = timer_after(timer, w)
    /\ keybuf' = 0
    /\ cleared' = wait_cleared(keybuf)
    /\ pc' = "t_hold"
    /\ UNCHANGED <<script, convVars, pulseVars, onset_info, isiVars, planVars,
                   clock, loopVars, blockVars, thisTrial, onset_dig_log,
                   recVars, waitVars, prep, adaptVars, shown>>

\* The same call returns None after maxWait, when maxWait is finite.
T_AwaitTimeout ==
    /\ script = "training"
    /\ pc = "t_await"
    /\ time_digit_t[block] # INF
    /\ wait_buffer(keybuf) = 0
    /\ response' = NoResponse
    /\ timer' = timer_after(timer, time_digit_t[block])
    /\ keybuf' = 0
    /\ cleared' = wait_cleared(keybuf)
    /\ pc' = "t_hold"
    /\ UNCHANGED <<script, convVars, pulseVars, onset_info, isiVars, planVars,
                   clock, loopVars, blockVars, thisTrial, onset_dig_log,
                   recVars, waitVars, prep, adaptVars, shown>>

T_Await == T_AwaitKey \/ T_AwaitTimeout

\* if wait_till_end[block-1]: while timer.getTime() > 0: the digits are drawn
\* again; one pass.
T_HoldPass ==
    /\ script = "training"
    /\ pc = "t_hold"
    /\ wait_till_end[block]
    /\ timer_running(timer)
    /\ \E d \in PassDelays : timer' = timer_after(timer, d)
    /\ UNCHANGED <<script, keyVars, pc, convVars, pulseVars, onset_info, isiVars,
                   planVars, runVars>>

\* The digits are held no longer.
T_Hold ==
    /\ script = "training"
    /\ pc = "t_hold"
    /\ ~(wait_till_end[block] /\ timer_running(timer))
    /\ timer' = 0
    /\ pc' = "t_score"
    /\ cleared' = 0
    /\ UNCHANGED <<script, keybuf, convVars, pulseVars, onset_info, isiVars, planVars,
                   runVars>>

\* analyze response and save responses in TrialHandler; the row's is_target
\* and is_order are read here for the first time.
T_Score ==
    /\ script = "training"
    /\ pc = "t_score"
    /\ thisTrial' \in Stim
    /\ LET r == analyze_response_t(response, condition, thisTrial',
                                   [rt |-> rt, correct |-> correct,
                                    keypressed |-> keypressed])
       IN /\ rt' = r.rt
          /\ correct' = r.correct
          /\ keypressed' = r.keypressed
          /\ n_rec_correct' = n_rec_correct + (IF r.correct = 1 THEN 1 ELSE 0)
    /\ n_rec' = n_rec + 1
    /\ pc' = "t_feedback"
    /\ UNCHANGED <<script, keyVars, convVars, pulseVars, onset_info, timer, isiVars,
                   planVars, clock, loopVars, blockVars, onset_dig_log,
                   response, waitVars, prep, adaptVars, shown>>

\* "Adaptive check" at the end of a trial: corr_sum counts the correct trials
\* of an order block.
adaptive_check(cs, cond, corr) ==
    IF cond = "order" /\ corr = 1 THEN cs + 1 ELSE cs

\* Mutant of feedback_face: the win image unless the answer was wrong.
feedback_face_unless_wrong(corr) == IF corr # 0 THEN "face_win" ELSE "face_los"

\* if correct == 1: face_win is drawn, else: face_los.
feedback_face(corr) == IF corr = 1 THEN "face_win" ELSE "face_los"

\* feedback screen: with feedback on, timer.reset(time_feedback) and a face
\* is shown while the timer runs; with feedback off the adaptive check
\* follows at once.  The response and the stimulus row are not read again.
T_Feedback ==
    /\ script = "training"
    /\ pc = "t_feedback"
    /\ IF feedback
       THEN /\ shown' = feedback_face(correct)
            /\ timer' = time_feedback
            /\ pc' = "t_fb_wait"
            /\ UNCHANGED <<corr_sum, idx>>
       ELSE /\ shown' = None
            /\ timer' = 0
            /\ corr_sum' = adaptive_check(corr_sum, condition, correct)
            /\ idx' = idx + 1
            /\ pc' = "t_trial"
    /\ thisTrial' = NoTrial
    /\ response' = NoResponse
    /\ UNCHANGED <<script, keyVars, convVars, pulseVars, onset_info, isiVars, planVars,
                   clock, block, condition, idb, blockVars, onset_dig_log,
                   recVars, waitVars, prep, stop_cond, feedback>>

\* The feedback time is over: the adaptive check.
T_FeedbackExit ==
    /\ script = "training"
    /\ pc = "t_fb_wait"
    /\ ~timer_running(timer)
    /\ timer' = 0
    /\ corr_sum' = adaptive_check(corr_sum, condition, correct)
    /\ idx' = idx + 1
    /\ pc' = "t_trial"
    /\ UNCHANGED <<script, keyVars, convVars, pulseVars, onset_info, isiVars, planVars,
                   clock, block, condition, idb, blockVars, thisTrial,
                   onset_dig_log, response, recVars, waitVars, prep, stop_cond,
                   feedback, shown>>

\* The trials of the block are used up.  After an order block "Adaptation"
\* runs and the while loop checks again; after a control block the order
\* block follows.  corr_sum is reset before it is read again; it is cleared.
T_BlockEnd ==
    /\ script = "training"
    /\ pc = "t_trial"
    /\ idx = train_trials
    /\ IF condition = "order"
       THEN /\ LET a == adaptation(corr_sum, block, feedback, stop_cond)
               IN /\ stop_cond' = a.stop_cond
                  /\ feedback' = a.feedback
            /\ corr_sum' = 0
            /\ condition' = condition
            /\ pc' = "t_while"
       ELSE /\ UNCHANGED <<stop_cond, feedback, corr_sum>>
            /\ condition' = "order"
            /\ pc' = "t_info"
    /\ thisTrial' = NoTrial
    /\ response' = NoResponse
    /\ rt' = 0
    /\ correct' = 0
    /\ keypressed' = None
    /\ shown' = None
    /\ UNCHANGED <<script, keyVars, convVars, pulseVars, onset_info, timer, isiVars, planVars, clock, block, idb, idx, blockVars,
                   onset_dig_log, n_rec, n_rec_correct, waitVars, prep>>

\* 'Thank you' screen after task: timer.reset(time_info).
T_Thanks ==
    /\ script = "training"
    /\ pc = "t_thanks"
    /\ timer' = time_info_t
    /\ pc' = "t_thanks_wait"
    /\ UNCHANGED <<script, keyVars, convVars, pulseVars, onset_info, isiVars, planVars,
                   runVars>>

\* The 'Thank you' time is over.
T_ThanksExit ==
    /\ script = "training"
    /\ pc = "t_thanks_wait"
    /\ ~timer_running(timer)
    /\ timer' = 0
    /\ pc' = "t_save"
    /\ UNCHANGED <<script, keyVars, convVars, pulseVars, onset_info, isiVars, planVars,
                   runVars>>

\* exp.saveAsWideText(...)
T_Save ==
    /\ script = "training"
    /\ pc = "t_save"
    /\ pc' = "t_done"
    /\ UNCHANGED <<script, keyVars, convVars, pulseVars, onset_info, timer, isiVars, planVars, runVars>>

NextTraining ==
    \/ T_Ready \/ T_While \/ T_Info \/ T_TimerPass \/ T_InfoExit
    \/ T_TrialBegin \/ T_FixExit \/ T_Digits \/ T_Await
    \/ T_HoldPass \/ T_Hold \/ T_Score \/ T_Feedback \/ T_FeedbackExit
    \/ T_BlockEnd \/ T_Thanks \/ T_ThanksExit \/ T_Save

SpecTraining == InitTraining /\ [][NextTraining]_vars

\* Both scripts.
Init == InitFmri \/ InitTraining

Next == G_Check \/ G_Pick \/ NextFmri \/ NextTraining

Spec == Init /\ [][Next]_vars

\* The parts of the main loops in which no response is waited for: info
\* screen, fixation, hold, feedback and the 'Thank you' screen.
EarlyPcs ==
    {"f_info_wait", "f_fix", "f_hold", "f_thanks",
     "t_info_wait", "t_fix", "t_hold", "t_fb_wait", "t_thanks_wait"}

\* The participant presses a response key while no response is waited for:
\* the press goes to the event buffer.  Which key it was and when it was
\* pressed is read by nothing but a waitKeys call that returns it.
K_Press ==
    /\ pc \in EarlyPcs
    /\ keybuf < MaxKeyBuf
    /\ keybuf' = keybuf + 1
    /\ UNCHANGED <<script, pc, cleared, convVars, pulseVars, onset_info, timer, isiVars,
                   planVars, runVars>>

\* Both scripts with key presses in the loops outside the response window.
SpecKeys == Init /\ [][Next \/ K_Press]_vars

\* ------------------------------------------------------------------ claims
\* C1: for every valid input the sequence returned by generate_isi sums to
\* exactly n_trials * (min_frames + max_frames) / 2, and the loop ends with
\* remaining_frames = 0 (it never overshoots).
C1_SumExact ==
    (script = "isi" /\ pc = "g_done") =>
        /\ remaining_frames = 0
        /\ 2 * SumSeq(frames) = g_n * (g_min + g_max)

\* The state right after a trial has been scored and its record written.
PostScore ==
    \/ script = "fmri" /\ pc = "f_trial" /\ n_rec > 0
    \/ script = "training" /\ pc = "t_feedback"

\* C2: when a response key was pressed, in both scripts: in the control
\* condition the yes key is correct iff is_target = 1 and the no key iff
\* is_target = 0; in the order condition the yes key is correct iff
\* |is_order| = 1 and the no key iff is_order = 0; otherwise correct = 0; the
\* recorded key is the key pressed.
C2_Scoring ==
    (PostScore /\ response.key # None) =>
        /\ keypressed = response.key
        /\ keypressed \in {key_left, key_right}
        /\ correct \in {0, 1}
        /\ correct = 1 <=>
              \/ /\ condition = "control" /\ response.key = key_right
                 /\ thisTrial.is_target = 1
              \/ /\ condition = "control" /\ response.key = key_left
                 /\ thisTrial.is_target = 0
              \/ /\ condition = "order" /\ response.key = key_right
                 /\ thisTrial.is_order \in {-1, 1}
              \/ /\ condition = "order" /\ response.key = key_left
                 /\ thisTrial.is_order = 0

C2_Witness ==
    /\ script = "fmri"
    /\ PostScore
    /\ condition = "order"
    /\ response.key = key_right
    /\ thisTrial.is_order = -1
    /\ correct = 1
    /\ keypressed = key_right

\* C3: a trial without a key press in the response window is recorded with
\* correct = -1, rt = 0 and no key, in both conditions and both scripts, and
\* the run goes on with the next trial (or the end of the block) as after any
\* other trial.
C3_Timeout ==
    /\ [](PostScore =>
            /\ n_rec >= 1
            /\ response.key = None =>
                  (correct = -1 /\ rt = 0 /\ keypressed = None)
            /\ correct = -1 => response.key = None)
    /\ [][(PostScore /\ correct = -1) =>
            /\ script = "fmri" =>
                  /\ idx < n_trials => (pc' = "f_fix" /\ idx' = idx)
                  /\ idx = n_trials => pc' \in {"f_block", "f_thanks"}
            /\ script = "training" =>
                  \/ ~feedback /\ pc' = "t_trial" /\ idx' = idx + 1
                  \/ feedback /\ pc' = "t_fb_wait" /\ shown' = "face_los"]_vars

C3_Witness ==
    /\ script = "training"
    /\ PostScore
    /\ condition = "order"
    /\ response.key = None
    /\ correct = -1
    /\ idx < train_trials - 1

\* C4 as stated: the digit onset of every trial (the end of its fixation
\* loop, prep before the logged onset) exceeds its planned onset by at most the
\* longest delay of one pass, whatever happened before.
C4_NoAccumulation ==
    (script = "fmri" /\ pc = "f_await") =>
        onset_dig_log - prep - onset_dig_plan[idx + 1] <= MaxPassTicks * Tick

\* C4, amended: when the fixation loop of a trial is entered before the
\* planned digit onset, the loop ends less than the duration of its last pass
\* after the planned onset, whatever the lateness of earlier events, and the
\* logged onset follows by the preparation of the digits only.  When the loop
\* is entered at or after the planned onset it makes no pass and the lateness
\* at entry is carried over whole.
C4_CatchUp ==
    (script = "fmri" /\ pc = "f_await") =>
        LET plan == onset_dig_plan[idx + 1]
            exit == onset_dig_log - prep
        IN IF wait_entry < plan
           THEN /\ passes >= 1
                /\ exit >= plan
                /\ exit - plan < last_pass
           ELSE /\ passes = 0
                /\ exit = wait_entry

C4_Witness ==
    /\ script = "fmri"
    /\ pc = "f_await"
    /\ idx >= 1
    /\ wait_entry > onset_fix_plan[idx + 1]
    /\ wait_entry < onset_dig_plan[idx + 1]
    /\ passes >= 1
    /\ onset_dig_log - prep - onset_dig_plan[idx + 1] < last_pass

\* C5: no event starts before its planned onset: a fixation starts at or after
\* the planned fixation onset (the first one of a block after onset_fix[idb][0],
\* a later one after the planned end of the previous digit), the digits are
\* shown at or after onset_dig_plan, scoring starts at or after onset_dig_plan
\* + time_digit even after an early response, and a wait loop whose deadline
\* is past at its first check makes no pass.
C5_NotBeforePlan ==
    script = "fmri" =>
        /\ pc \in {"f_fix", "f_digits", "f_await"} =>
              /\ wait_entry >= onset_fix_plan[idx + 1]
              /\ idx >= 1 => wait_entry >= onset_dig_plan[idx] + time_digit
        /\ pc = "f_digits" => clock >= onset_dig_plan[idx + 1]
        /\ pc \in {"f_await", "f_hold", "f_score"} =>
              onset_dig_log >= onset_dig_plan[idx + 1]
        /\ pc = "f_score" => clock >= onset_dig_plan[idx + 1] + time_digit
        /\ (pc = "f_info_wait" /\ wait_entry >= onset_fix_plan[1]) => passes = 0
        /\ (pc \in {"f_fix", "f_digits"} /\ wait_entry >= onset_dig_plan[idx + 1])
              => passes = 0
        /\ (pc \in {"f_hold", "f_score"}
              /\ wait_entry >= onset_dig_plan[idx + 1] + time_digit)
              => passes = 0

C5_Witness ==
    /\ script = "fmri"
    /\ pc = "f_score"
    /\ response.key # None
    /\ response.t < onset_dig_plan[idx + 1] + time_digit
    /\ passes >= 1
    /\ clock >= onset_dig_plan[idx + 1] + time_digit

\* C6: in every block made by generate_onsets, onset_fix[k] is the sum of the
\* earlier ISIs plus k digit durations plus the block's padding, onset_dig[k] =
\* onset_fix[k] + isi[k], and onset_fix[k+1] >= onset_dig[k], so the onsets
\* increase strictly within the block.
C6_OnsetsWithinBlock ==
    pc = "p_done" =>
        \A b \in 1..Len(isi) :
            /\ Len(onset_fix[b]) = n_trials
            /\ Len(onset_dig[b]) = n_trials
            /\ \A k \in 1..n_trials :
                /\ onset_fix[b][k] =
                       SumSeq(SubSeq(isi_seconds[b], 1, k - 1))
                       + (k - 1) * time_digit
                       + time_info * b + time_block * (b - 1)
                /\ onset_dig[b][k] = onset_fix[b][k] + isi_seconds[b][k]
                /\ onset_fix[b][k] < onset_dig[b][k]
                /\ k < n_trials =>
                       /\ onset_fix[b][k + 1] >= onset_dig[b][k]
                       /\ onset_dig[b][k] < onset_dig[b][k + 1]
                       /\ onset_fix[b][k] < onset_fix[b][k + 1]

C6_Witness ==
    /\ pc = "p_done"
    /\ \E b \in 1..Len(isi) : \E k \in 1..(n_trials - 1) :
           /\ isi[b][k] # isi[b][k + 1]
           /\ onset_fix[b][k + 1] > onset_dig[b][k]

\* C7: the planned end of the last digit of a block is never later than the
\* first planned fixation onset of the next block.
C7_NoOverlapBetweenBlocks ==
    pc = "p_done" =>
        \A b \in 1..(Len(onset_fix) - 1) :
            onset_dig[b][n_trials] + time_digit <= onset_fix[b + 1][1]

C7_Witness ==
    /\ pc = "p_done"
    /\ Len(onset_fix) >= 2
    /\ isi[1] # isi[2]
    /\ onset_dig[1][n_trials] + time_digit <= onset_fix[2][1]

\* C8: in every block of a run the sum over the trials of ISI + time_digit is
\* the constant time_block = n_trials * (mean(time_range_isi) + time_digit),
\* whatever ISI values were drawn.
C8_BlockDuration ==
    \A b \in 1..Len(isi) :
        /\ Len(isi[b]) = n_trials
        /\ SumSeq([k \in 1..n_trials |-> isi_seconds[b][k] + time_digit])
               = n_trials * (mean2(time_range_isi) + time_digit)

C8_Witness ==
    /\ Len(isi) = 2 * n_block
    /\ \E b \in 1..Len(isi) : \E j, k \in 1..n_trials :
           isi[b][j] = n_range_isi[1] /\ isi[b][k] = n_range_isi[2]
    /\ \E b \in 1..Len(isi) : \A j, k \in 1..n_trials : isi[b][j] = isi[b][k]

\* C9: the training run ends normally (thank-you screen and saved log) once
\* the stop flag is set after an order block or once max_n_blocks block pairs
\* are done, and never starts more than max_n_blocks block pairs.
C9_EndsNormally ==
    script = "training" =>
        /\ pc # "t_crashed"
        /\ block <= max_n_blocks
        /\ pc \in {"t_thanks", "t_save", "t_done"} =>
              (stop_cond \/ block = max_n_blocks)

\* C10: the adaptive policy runs once at the end of each order block and at no
\* other step: with corr_sum the number of correct trials of the block, if
\* corr_sum / n_trials >= 2/3 and feedback is disabled the stop flag is set;
\* else if corr_sum / n_trials >= 1/2 and block >= 2 feedback is disabled;
\* else feedback is enabled.
C10_AdaptivePolicy ==
    [][script = "training" =>
        IF pc = "t_trial" /\ idx = train_trials /\ condition = "order"
        THEN /\ n_rec = train_trials
             /\ corr_sum = n_rec_correct
             /\ IF 3 * corr_sum >= 2 * train_trials /\ feedback = FALSE
                THEN stop_cond' = TRUE /\ feedback' = feedback
                ELSE IF 2 * corr_sum >= train_trials /\ block >= 2
                THEN stop_cond' = stop_cond /\ feedback' = FALSE
                ELSE stop_cond' = stop_cond /\ feedback' = TRUE
        ELSE UNCHANGED <<stop_cond, feedback>>]_vars

C10_Witness ==
    /\ script = "training"
    /\ pc = "t_while"
    /\ stop_cond = TRUE
    /\ feedback = FALSE
    /\ block >= 3

\* C11: every call of seconds2frames whose refresh_rate is not a positive
\* integer (zero, negative or not an int) or whose time is negative raises an
\* argument error and returns no frame count.
C11_RejectsInvalid ==
    [][(/\ script = "conv"
        /\ pc = "c_s2f"
        /\ \/ c_rate.type # "int"
           \/ c_rate.val <= 0
           \/ c_time.sign < 0)
       => /\ pc' = "c_raised"
          /\ c_raised' \in {"TypeError", "ValueError"}]_vars

\* C12: generate_isi raises its argument error, before any sequence is
\* built, in each of the cases max_frames <= min_frames, (max_frames -
\* min_frames) % chunk # 0 and max_frames - min_frames odd, and in no other
\* case.
C12_RaisesIff ==
    (script = "isi" /\ pc # "g_check") =>
        /\ pc = "g_raised" <=>
              \/ g_max <= g_min
              \/ (g_max - g_min) % g_chunk # 0
              \/ (g_max - g_min) % 2 = 1
        /\ pc = "g_raised" => (frames = <<>> /\ remaining_frames = 0)

C12_Witness ==
    /\ script = "isi"
    /\ pc = "g_raised"
    /\ g_max > g_min
    /\ (g_max - g_min) % g_chunk = 0
    /\ (g_max - g_min) % 2 = 1
    /\ frames = <<>>

\* C13: for every valid input, after every pass of the distribution loop and
\* at the return, frames has n_trials values, each in [min_frames, max_frames]
\* and each congruent to min_frames modulo chunk.
C13_LengthRangeStep ==
    (script = "isi" /\ pc \in {"g_loop", "g_done"}) =>
        /\ Len(frames) = g_n
        /\ \A i \in 1..g_n :
              /\ g_min <= frames[i]
              /\ frames[i] <= g_max
              /\ (frames[i] - g_min) % g_chunk = 0

C13_Witness ==
    /\ script = "isi"
    /\ pc = "g_done"
    /\ g_n >= 3
    /\ g_chunk < g_max - g_min
    /\ \E i, j, k \in 1..g_n :
          /\ frames[i] = g_min
          /\ frames[j] = g_max
          /\ frames[k] > g_min /\ frames[k] < g_max

\* The trial state of the fMRI run: phase, counters, planned onsets, the
\* clock and the response record.
trialState ==
    <<pc, clock, loopVars, blockVars, planVars, isiVars, thisTrial,
      onset_info, onset_dig_log, response, recVars, waitVars, prep>>

\* C14: a pulse can arrive in every phase of the main loop of the fMRI run;
\* each arrival appends one timestamp to the end of pulses, leaves the earlier
\* entries as they were and in their order and keeps the timestamps
\* non-decreasing; an arrival in the main loop, that is after the pulse that
\* starts the run, leaves the trial state unchanged; no other step changes
\* pulses.
C14_PulseAppend ==
    /\ [][(script = "fmri" /\ pulses' # pulses) =>
            /\ Len(pulses') = Len(pulses) + 1
            /\ SubSeq(pulses', 1, Len(pulses)) = pulses
            /\ pulses'[Len(pulses')] >= last_reading(pulses)
            /\ pc # "f_pulse" => UNCHANGED trialState]_vars
    /\ [](script = "fmri" =>
            /\ \A i \in 1..(Len(pulses) - 1) : pulses[i] <= pulses[i + 1]
            /\ (/\ pc \in {"f_block", "f_info_wait", "f_trial", "f_fix",
                           "f_digits", "f_await", "f_hold", "f_score"}
                /\ Len(pulses) < MaxPulses) => ENABLED F_GetPulse)

\* The log holds the pulse that started the run and one more.
C14_Witness ==
    /\ script = "fmri"
    /\ pc = "f_hold"
    /\ passes >= 1
    /\ idx >= 1
    /\ Len(pulses) = MaxPulses
    /\ pulses[1] < pulses[MaxPulses]

\* C19: save_pulses writes, for a non-empty list pulses of n timestamps, n
\* rows indexed 1..n in the order of the list, with onset[i] = pulses[i],
\* spacing[1] = 0 and spacing[i] = pulses[i] - pulses[i-1] for i > 1, and it
\* leaves the list as it was (for an empty list it writes nothing).
C19_PulseRows ==
    /\ [](pc = "s_done" =>
            /\ Len(pulse_csv) = Len(pulses)
            /\ \A i \in 1..Len(pulses) :
                  /\ pulse_csv[i].index = i
                  /\ pulse_csv[i].onset = pulses[i]
                  /\ pulse_csv[i].spacing =
                        IF i = 1 THEN 0 ELSE pulses[i] - pulses[i - 1])
    /\ [][pc = "s_save" => pulses' = pulses]_vars

C19_Witness ==
    /\ pc = "s_done"
    /\ Len(pulses) = MaxLogLen
    /\ pulses[1] > 0
    /\ pulses[2] < pulses[1]
    /\ pulses[3] > pulses[2]
    /\ pulse_csv[2].spacing < 0
    /\ pulse_csv[3].spacing > 0

\* C18: for a valid call seconds2frames(time, refresh_rate), time = num / den
\* seconds with num >= 0 and refresh_rate a positive int: when time *
\* refresh_rate is not an integer the call raises the precision error, and
\* otherwise it returns exactly time * refresh_rate (1.0 s at 60 Hz gives 60,
\* 0.5 s gives 30, 0.33 s raises).
C18_ExactCount ==
    [][(/\ script = "conv"
        /\ pc = "c_s2f"
        /\ c_calls = 0
        /\ c_rate.type = "int"
        /\ c_rate.val > 0
        /\ c_first.num >= 0)
       => IF (c_first.num * c_rate.val) % c_first.den = 0
          THEN /\ pc' = "c_f2s"
               /\ c_raised' = None
               /\ c_frames' = (c_first.num * c_rate.val) \div c_first.den
          ELSE /\ pc' = "c_raised"
               /\ c_raised' = "ValueError"]_vars

\* C20: for every positive int refresh rate r: frames2seconds(seconds2frames(t,
\* r), r) = t for every time t >= 0 that is a multiple of 1 / r, and
\* seconds2frames(frames2seconds(f, r), r) = f for every frame count f >= 0.
C20_RoundTrip ==
    (/\ script = "conv"
     /\ c_rate.type = "int"
     /\ c_rate.val > 0
     /\ c_first.num >= 0
     /\ (c_first.num * c_rate.val) % c_first.den = 0)
    => /\ pc # "c_raised"
       /\ pc = "c_done" =>
             IF c_first.call = "seconds2frames"
             THEN c_time = truediv(c_first.num, c_first.den)
             ELSE c_frames = c_first.num

\* Position of the main loop inside a trial: 1 fixation, 2 digits shown,
\* 3 response window, 4 hold, 5 scoring; 0 outside a trial.
trial_phase ==
    CASE pc \in {"f_fix", "t_fix"} -> 1
      [] pc \in {"f_digits", "t_digits"} -> 2
      [] pc \in {"f_await", "t_await"} -> 3
      [] pc \in {"f_hold", "t_hold"} -> 4
      [] pc \in {"f_score", "t_score"} -> 5
      [] OTHER -> 0

\* C15: in both scripts a trial goes through fixation, digit onset, response
\* capture or timeout, hold and scoring in this order and in no other; a
\* record is written only by the scoring step, one per trial, so that the
\* number of records equals the number of trials begun and finished; and when
\* a fixation starts every earlier trial of the block has its record.
C15_TrialOrder ==
    /\ [](/\ trial_phase \in 1..5 => n_rec = idx
          /\ n_rec = idx + (IF pc \in {"t_feedback", "t_fb_wait"} THEN 1 ELSE 0))
    /\ [][/\ trial_phase' # trial_phase =>
                trial_phase' = (trial_phase + 1) % 6
          /\ n_rec' # n_rec =>
                \/ trial_phase = 5 /\ trial_phase' = 0 /\ n_rec' = n_rec + 1
                \/ trial_phase = 0 /\ trial_phase' = 0 /\ n_rec' = 0
          /\ (trial_phase = 5 /\ trial_phase' = 0) => n_rec' = n_rec + 1
          /\ (trial_phase = 0 /\ trial_phase' = 1) =>
                (n_rec = idx /\ n_rec' = n_rec /\ idx' = idx)]_vars

C15_Witness ==
    /\ script = "training"
    /\ pc = "t_fix"
    /\ timer_running(timer)
    /\ idx = 2
    /\ n_rec = 2

\* The longest wait with a time limit: the longest fixation of the fMRI run.
LongestWait == isi_millis[n_range_isi[2]]

\* The longest the 'Thank you' screen of the fMRI run can last: its frames
\* are counted, and each of them takes one pass.
ThanksLimit == n_refresh_info * MaxPassTicks * Tick

\* The wait loops of the two main loops and the waits made by one call.
LoopWaits ==
    {"f_info_wait", "f_fix", "f_hold", "f_thanks",
     "t_info_wait", "t_fix", "t_hold", "t_fb_wait", "t_thanks_wait"}
KeyWaits == {"f_ready", "f_pulse", "t_ready"}

\* The time the wait at pc can still last when no key is pressed, up to the
\* pass in progress: INF when nothing ends the wait, 0 where the main loop
\* does not wait.
wait_left ==
    CASE pc \in KeyWaits -> INF
      [] pc = "f_info_wait" -> onset_fix_plan[1] - clock
      [] pc = "f_fix" -> onset_dig_plan[idx + 1] - clock
      [] pc = "f_await" -> time_digit
      [] pc = "f_hold" -> hold_deadline(onset_dig_plan, idx) - clock
      [] pc = "f_thanks" -> (n_refresh_info - passes) * MaxPassTicks * Tick
      [] pc \in {"t_info_wait", "t_fix", "t_await", "t_fb_wait",
                 "t_thanks_wait"} -> timer
      [] pc = "t_hold" -> IF wait_till_end[block] THEN timer ELSE 0
      [] OTHER -> 0

\* C16 as stated: in both scripts only the ready check and the wait for the
\* first scanner pulse can last for an unbounded time.
C16_OnlyKeyWaits == wait_left = INF => pc \in KeyWaits

\* C16, amended: besides the ready check and the wait for the first pulse,
\* the response window of the training script is without limit in the block
\* pairs whose time_digit is inf, and only there.  Every other wait has at
\* most LongestWait left when it is entered, or ThanksLimit for the counted
\* frames of the 'Thank you' screen of the fMRI run; each pass of a wait loop
\* is made with time left and uses at least one tick of it, a wait made by
\* one call returns within its limit, and the hold after an unlimited
\* response window is passed through without waiting.
C16_BoundedWaits ==
    /\ [](/\ wait_left = INF <=>
                \/ pc \in KeyWaits
                \/ pc = "t_await" /\ time_digit_t[block] = INF
          /\ wait_left # INF =>
                wait_left <= IF pc = "f_thanks" THEN ThanksLimit
                                                ELSE LongestWait)
    /\ [][/\ (pc \in LoopWaits /\ pc' = pc) =>
                (wait_left > 0 /\ wait_left' <= wait_left - Tick)
          /\ pc = "f_await" => clock' - clock <= time_digit
          /\ pc = "f_thanks" => clock' - clock <= MaxPassTicks * Tick
          /\ (pc = "t_await" /\ timer # INF) => (timer' # INF /\ timer' >= 0)
          /\ (pc = "t_hold" /\ timer = INF) => pc' = "t_score"]_vars

C16_Witness ==
    /\ script = "training"
    /\ pc = "t_hold"
    /\ block = 3
    /\ response.key = None
    /\ timer = 0

\* The info screen of the block is over and its first fixation is about to
\* begin.
InfoOver == script = "fmri" /\ pc = "f_trial" /\ idx = 0

\* How long the info screen of the block was shown, from 'onset_info'.
info_shown == clock - onset_info

\* The planned onset of the info screen of block idb: time_info before the
\* planned onset of the block's first fixation.
info_plan == padding(idb, time_block, time_info) - time_info

\* C17 as stated: in the fMRI run the info screen of every block is shown for
\* exactly time_info, whatever the delays of rendering and of the block
\* before.
C17_ExactInfoTime == InfoOver => info_shown = time_info

\* C17, amended: the info screen ends at the planned onset of the block's
\* first fixation, not time_info after its own onset.  A block never begins
\* before its planned time; the info loop ends at or after the planned
\* fixation onset, less than the duration of its last pass after it, or
\* without a pass when it is entered at or after that onset.  The screen is
\* therefore shown for time_info less the lateness of its onset plus the
\* overshoot of the loop, and for exactly time_info only when the two are
\* equal.
C17_InfoUntilPlan ==
    /\ [](script = "fmri" /\ pc = "f_info_wait" =>
            /\ onset_fix_plan[1] = info_plan + time_info
            /\ onset_info >= info_plan)
    /\ [](InfoOver =>
            /\ clock >= onset_fix_plan[1]
            /\ passes > 0 => clock - last_pass < onset_fix_plan[1]
            /\ passes = 0 => clock = wait_entry
            /\ info_shown = time_info - (onset_info - info_plan)
                                      + (clock - onset_fix_plan[1])
            /\ info_shown = time_info <=>
                  onset_info - info_plan = clock - onset_fix_plan[1])

C17_Witness ==
    /\ InfoOver
    /\ idb = 1
    /\ onset_info > info_plan
    /\ passes > 0
    /\ info_shown < time_info

\* C21: generate_isi ends for every valid input with chunk >= 1: while
\* remaining_frames > 0 in the loop some index accepts a chunk without
\* passing max_frames, and with a fair randint the loop is left and the
\* frames are returned.
C21_IsiTerminates ==
    /\ []((script = "isi" /\ pc = "g_loop" /\ remaining_frames > 0) =>
            \E ind \in 1..g_n : isi_accepts(frames, ind, g_chunk, g_max))
    /\ ((script = "isi" /\ pc = "g_loop") ~> (pc = "g_done"))

C21_Witness ==
    /\ script = "isi"
    /\ pc = "g_done"
    /\ g_n = 3
    /\ \E i \in 1..g_n : frames[i] = g_max
    /\ \E i \in 1..g_n : frames[i] = g_min

\* C22: in the training script the feedback flag decides only whether an
\* image follows the record of a trial: an image is shown iff the flag is on
\* at that moment, the win image iff correct = 1 and the lose image after a
\* wrong answer or a timeout; the record (rt, correct, key) is made from the
\* response, the condition and the stimulus row alone, before the flag is
\* read, and the feedback step leaves it as it is.
C22_FeedbackGatesImage ==
    /\ [](script = "training" =>
            /\ pc = "t_fb_wait" =>
                  /\ feedback
                  /\ shown \in {"face_win", "face_los"}
                  /\ shown = "face_win" <=> correct = 1
            /\ pc \notin {"t_fb_wait", "t_trial"} => shown = None)
    /\ [][script = "training" =>
            /\ pc = "t_feedback" =>
                  /\ feedback <=> pc' = "t_fb_wait"
                  /\ ~feedback => (pc' = "t_trial" /\ shown' = None)
                  /\ UNCHANGED <<recVars, feedback>>
            /\ pc = "t_fb_wait" => UNCHANGED <<recVars, feedback, shown>>
            /\ pc = "t_score" =>
                  /\ feedback' = feedback
                  /\ response.key = None =>
                        (rt' = 0 /\ correct' = -1 /\ keypressed' = None)
                  /\ response.key # None =>
                        /\ rt' = response.t
                        /\ keypressed' = response.key
                        /\ correct' \in {0, 1}
                        /\ correct' = 1 <=>
                              IF condition = "control"
                              THEN thisTrial'.is_target =
                                     (IF response.key = key_right THEN 1 ELSE 0)
                              ELSE (thisTrial'.is_order # 0) =
                                     (response.key = key_right)]_vars

C22_Witness ==
    /\ script = "training"
    /\ pc = "t_feedback"
    /\ ~feedback
    /\ correct = 1
    /\ keypressed = key_right
    /\ condition = "order"

\* An order block of the training script has run all its trials and its
\* adaptation is about to be made.
OrderBlockOver ==
    /\ script = "training"
    /\ pc = "t_trial"
    /\ idx = train_trials
    /\ condition = "order"

\* C23: in the training run feedback is on in every state of block pairs 1
\* and 2, up to the adaptation that closes the order block of pair 2; the
\* stop flag is not set before the order block of block pair 3 is over; the
\* flags change only in the adaptation after an order block, and the stop
\* flag is set only after an order block that ran without feedback.
C23_FlagsByBlock ==
    /\ [](script = "training" =>
            /\ (block <= 2 /\ pc # "t_while") => feedback
            /\ block <= 1 => feedback
            /\ stop_cond =>
                  /\ block >= 3
                  /\ ~feedback
                  /\ pc \in {"t_while", "t_thanks", "t_thanks_wait", "t_save",
                             "t_done"})
    /\ [][script = "training" =>
            /\ (feedback' # feedback \/ stop_cond' # stop_cond) =>
                  OrderBlockOver
            /\ (stop_cond' /\ ~stop_cond) => (~feedback /\ block >= 3)]_vars

C23_Witness ==
    /\ script = "training"
    /\ pc = "t_thanks"
    /\ stop_cond
    /\ block = 3
    /\ ~feedback

\* C24: a key pressed before the digits of a trial are on the screen is not
\* the trial's response: waitKeys throws away what the buffer holds when the
\* response window opens and returns only a press made later, within the
\* window; so the reaction time of every recorded key press is its time
\* stamp minus the digit onset on the same clock (fmri_clock and rt_onset, or
\* rtimer, which is reset at the digit onset) and is not negative.
C24_NoEarlyKey ==
    /\ [](/\ (pc \in {"f_hold", "f_score"} /\ response.key # None) =>
                response.t > onset_dig_log
          /\ (pc \in {"t_hold", "t_score"} /\ response.key # None) =>
                response.t > 0
          /\ (PostScore /\ keypressed # None) => rt > 0)
    /\ [][/\ pc \in {"f_await", "t_await"} =>
                /\ keybuf' = 0
                /\ cleared' = keybuf
                /\ response'.key # None =>
                      response'.t > (IF script = "fmri" THEN clock ELSE 0)
          /\ (pc = "f_await" /\ response'.key # None) =>
                response'.t <= clock + time_digit
          /\ (pc = "f_score" /\ response.key # None) =>
                (rt' = response.t - onset_dig_log /\ keypressed' = response.key)
          /\ (pc = "t_score" /\ response.key # None) =>
                (rt' = response.t /\ keypressed' = response.key)]_vars

C24_Witness ==
    /\ script = "fmri"
    /\ pc = "f_hold"
    /\ idx = 1
    /\ cleared > 0
    /\ response.key = key_right
    /\ response.t = onset_dig_log + prep + 2 * Tick

============================================================================
